---- MODULE Spec2Model ----
(***************************************************************************)
(* Model of src/lib/utils/HydrogenNucleusHelper.ts: the location codec,    *)
(* the exchange-rate codec, the swap calculators and the swap-fee lookup.  *)
(*                                                                         *)
(* Representation.                                                         *)
(*  - A JavaScript string is a sequence of one-character strings.          *)
(*  - An ethers BigNumber handled by the codecs is its sequence of hex     *)
(*    digits (0..15), most significant first, without leading zeros; the   *)
(*    value zero is the empty sequence.  The codecs therefore run at the   *)
(*    full 128/248/256-bit widths of the source.                           *)
(*  - The swap calculators do arbitrary-precision arithmetic; they are     *)
(*    modelled on integers, the decoded rate components being converted    *)
(*    with BNtoInt.                                                        *)
(*  - A call either returns (ok = TRUE, val = the value) or throws         *)
(*    (ok = FALSE, val = the kind of error).                               *)
(***************************************************************************)
EXTENDS Integers, Sequences, FiniteSets

VARIABLES op, args, ret

vars == <<op, args, ret>>

Ok(v) == [ok |-> TRUE, val |-> v]
Throw(e) == [ok |-> FALSE, val |-> e]

Min(a, b) == IF a < b THEN a ELSE b
Max(a, b) == IF a > b THEN a ELSE b

(***************************************************************************)
(* Bounds of the explored inputs.                                          *)
(***************************************************************************)
\* how many hex digits beyond a declared width the BigNumber inputs reach
Slack == 2
\* amounts 0..MaxAmount are explored by the swap calculators
MaxAmount == 100
\* rate components 0..MaxRate are explored by the swap calculators
MaxRate == 3

(***************************************************************************)
(* Characters and strings.                                                 *)
(***************************************************************************)
\* the alphabet of the explored strings: the hex digits in both cases and
\* two letters that are no hex digits
LowerAlpha == <<"0","1","2","3","4","5","6","7","8","9","a","b","c","d","e","f","g","x">>
UpperAlpha == <<"0","1","2","3","4","5","6","7","8","9","A","B","C","D","E","F","G","X">>

CharIndex(c) == CHOOSE i \in 1..Len(LowerAlpha) : LowerAlpha[i] = c \/ UpperAlpha[i] = c
IsHexChar(c) == CharIndex(c) <= 16
CharVal(c) == CharIndex(c) - 1
IsUpperLetter(c) == \E i \in 11..Len(UpperAlpha) : UpperAlpha[i] = c
IsLowerLetter(c) == \E i \in 11..Len(LowerAlpha) : LowerAlpha[i] = c

\* String.prototype.toLowerCase
toLowerCase(s) == [i \in 1..Len(s) |-> LowerAlpha[CharIndex(s[i])]]
toUpperCase(s) == [i \in 1..Len(s) |-> UpperAlpha[CharIndex(s[i])]]

\* String.prototype.substring(a, b) with 0 <= a <= b, clamped to the length
substring(s, a, b) == SubSeq(s, Min(a, Len(s)) + 1, Min(b, Len(s)))
substringFrom(s, a) == substring(s, a, Len(s))

Repeat(c, n) == [i \in 1..n |-> c]

\* while(s.length < n) s = `0${s}`
PadStart(s, n) == IF Len(s) >= n THEN s ELSE Repeat("0", n - Len(s)) \o s

IsHexString(s) == \A i \in 1..Len(s) : IsHexChar(s[i])

(***************************************************************************)
(* BigNumber as a sequence of hex digits.                                  *)
(***************************************************************************)
Normalize(ds) ==
  IF \A i \in 1..Len(ds) : ds[i] = 0 THEN <<>>
  ELSE LET k == CHOOSE i \in 1..Len(ds) : ds[i] # 0 /\ \A j \in 1..(i-1) : ds[j] = 0
       IN  SubSeq(ds, k, Len(ds))

\* left-pad a digit sequence with zero digits to n digits
DigitsPad(ds, n) == IF Len(ds) >= n THEN ds ELSE Repeat(0, n - Len(ds)) \o ds

\* BigNumber.gt on non-negative values
BNgt(a, b) ==
  \/ Len(a) > Len(b)
  \/ /\ Len(a) = Len(b)
     /\ \E i \in 1..Len(a) : a[i] > b[i] /\ \A j \in 1..(i-1) : a[j] = b[j]

\* BigNumber.lte(0) on non-negative values
BNlteZero(a) == a = <<>>

\* BigNumber.shl(bits), bits a multiple of 4
BNshl(a, bits) == IF a = <<>> THEN <<>> ELSE a \o Repeat(0, bits \div 4)

\* BigNumber.shr(bits), bits a multiple of 4
BNshr(a, bits) ==
  IF Len(a) <= bits \div 4 THEN <<>> ELSE SubSeq(a, 1, Len(a) - bits \div 4)

\* the carry out of digit i when adding two digit sequences of equal length:
\* some digit j >= i generates a carry that the digits i..j-1 propagate
CarryOut(a, b, i) ==
  \E j \in i..Len(a) :
    /\ a[j] + b[j] >= 16
    /\ \A k \in i..(j - 1) : a[k] + b[k] = 15

CarryIn(a, b, i) == IF i < Len(a) /\ CarryOut(a, b, i + 1) THEN 1 ELSE 0

\* BigNumber.add
BNadd(a, b) ==
  LET n  == Max(Len(a), Len(b)) + 1
      pa == DigitsPad(a, n)
      pb == DigitsPad(b, n)
  IN  Normalize([i \in 1..n |-> (pa[i] + pb[i] + CarryIn(pa, pb, i)) % 16])

\* bitwise and of two hex digits, bit by bit
DigitAnd(p, q) ==
    (p % 2) * (q % 2)
  + 2 * ((p \div 2) % 2) * ((q \div 2) % 2)
  + 4 * ((p \div 4) % 2) * ((q \div 4) % 2)
  + 8 * (p \div 8) * (q \div 8)

\* BigNumber.and
BNand(a, b) ==
  LET n  == Max(Len(a), Len(b))
      pa == DigitsPad(a, n)
      pb == DigitsPad(b, n)
  IN  Normalize([i \in 1..n |-> DigitAnd(pa[i], pb[i])])

\* the integer a short digit sequence stands for
RECURSIVE BNtoInt(_)
BNtoInt(ds) ==
  IF ds = <<>> THEN 0 ELSE 16 * BNtoInt(SubSeq(ds, 1, Len(ds) - 1)) + ds[Len(ds)]

\* BigNumber.from(n) for a non-negative integer n
RECURSIVE IntToBN(_)
IntToBN(n) == IF n = 0 THEN <<>> ELSE IntToBN(n \div 16) \o <<n % 16>>

\* BigNumber.from("0x...") of a hex string given without its 0x prefix
BNfromHex(s) == Normalize([i \in 1..Len(s) |-> CharVal(s[i])])

DigitsToChars(ds) == [i \in 1..Len(ds) |-> LowerAlpha[ds[i] + 1]]

\* BigNumber.toHexString: 0x, then an even number of lowercase hex digits
toHexString(bn) ==
  LET ds == IF bn = <<>> THEN <<0, 0>>
            ELSE IF Len(bn) % 2 = 1 THEN <<0>> \o bn ELSE bn
  IN  <<"0", "x">> \o DigitsToChars(ds)

\* ethers.utils.arrayify of a 0x string with an even number of hex digits
arrayify(hex) ==
  LET h == substringFrom(hex, 2)
  IN  [i \in 1..(Len(h) \div 2) |-> 16 * CharVal(h[2*i - 1]) + CharVal(h[2*i])]

\* ethers.utils.zeroPad: throws when the value is longer than length
zeroPad(bytes, length) ==
  IF Len(bytes) > length THEN Throw("value out of range")
  ELSE Ok(Repeat(0, length - Len(bytes)) \o bytes)

\* ethers.utils.hexlify of a byte array
hexlify(bytes) ==
  <<"0", "x">> \o [i \in 1..(2 * Len(bytes)) |->
      IF i % 2 = 1 THEN LowerAlpha[(bytes[(i + 1) \div 2] \div 16) + 1]
      ELSE LowerAlpha[(bytes[i \div 2] % 16) + 1]]

(***************************************************************************)
(* Constants of the source.                                                *)
(***************************************************************************)
RateBits == 128
\* MaxUint128 = 2^128 - 1
MaxUint128 == Repeat(15, RateBits \div 4)
MAX_PPM == 1000000
\* hex digits of a location after its tag byte
PayloadChars == 62
\* characters of a location string, its 0x prefix included
LocationChars == 66

(***************************************************************************)
(* Exchange rate functions.                                                *)
(***************************************************************************)
toBytes32(bn) ==
  LET p == zeroPad(arrayify(toHexString(bn)), 32)
  IN  IF p.ok THEN Ok(hexlify(p.val)) ELSE p

\* mutant: the components packed in the wrong order
encodeExchangeRate_Swapped(exchangeRateX1, exchangeRateX2) ==
  LET x1 == exchangeRateX1
      x2 == exchangeRateX2
  IN  IF BNgt(x1, MaxUint128) \/ BNgt(x2, MaxUint128)
      THEN Throw("cannot encode exchange rate")
      ELSE toBytes32(BNadd(BNshl(x2, RateBits), x1))

\* mutant: the range of x2 left unchecked
encodeExchangeRate_X2Unchecked(exchangeRateX1, exchangeRateX2) ==
  LET x1 == exchangeRateX1
      x2 == exchangeRateX2
  IN  IF BNgt(x1, MaxUint128)
      THEN Throw("cannot encode exchange rate")
      ELSE toBytes32(BNadd(BNshl(x1, RateBits), x2))

encodeExchangeRate(exchangeRateX1, exchangeRateX2) ==
  LET x1 == exchangeRateX1
      x2 == exchangeRateX2
  IN  IF BNgt(x1, MaxUint128) \/ BNgt(x2, MaxUint128)
      THEN Throw("cannot encode exchange rate")
      ELSE toBytes32(BNadd(BNshl(x1, RateBits), x2))

decodeExchangeRate(exchangeRate) ==
  LET er == BNfromHex(substringFrom(exchangeRate, 2))
      x1 == BNshr(er, RateBits)
      x2 == BNand(er, MaxUint128)
  IN  <<x1, x2>>

exchangeRateIsNonzero(exchangeRate) ==
  LET x == decodeExchangeRate(exchangeRate)
  IN  IF BNlteZero(x[1]) \/ BNlteZero(x[2]) THEN FALSE ELSE TRUE

(***************************************************************************)
(* Location functions.                                                     *)
(***************************************************************************)
Tag(t) == <<"0", "x", "0", t>>
ReservedZeros == Repeat("0", 22)

externalAddressToLocation(address) ==
  Tag("1") \o PadStart(toLowerCase(substringFrom(address, 2)), PayloadChars)

internalAddressToLocation(address) ==
  Tag("2") \o PadStart(toLowerCase(substringFrom(address, 2)), PayloadChars)

poolIDtoLocation(poolID) ==
  Ok(Tag("3") \o PadStart(substringFrom(toHexString(poolID), 2), PayloadChars))

\* Stand-in for the keccak256 digest ethers' getChecksumAddress takes of the
\* lowercase address: digit i of the digest.  Only that the digest is a
\* function of the lowercase address is relied on.
HashNibble(lower, i) ==
  (3 * CharVal(lower[i]) + CharVal(lower[((7 * i) % Len(lower)) + 1]) + i) % 16

\* ethers getChecksumAddress: letter i is upper case iff digest digit i >= 8
getChecksumAddress(lower) ==
  [i \in 1..Len(lower) |->
     IF HashNibble(lower, i) >= 8 THEN UpperAlpha[CharIndex(lower[i])] ELSE lower[i]]

IsMixedCase(s) ==
  /\ \E i \in 1..Len(s) : IsUpperLetter(s[i])
  /\ \E i \in 1..Len(s) : IsLowerLetter(s[i])

\* ethers.utils.getAddress of `0x${hex}`, hex being 40 characters: throws
\* on a character that is no hex digit and on a mixed-case address whose
\* case is not its checksum
getAddress(hex) ==
  IF ~IsHexString(hex) \/ Len(hex) # 40 THEN Throw("invalid address")
  ELSE LET result == getChecksumAddress(toLowerCase(hex))
       IN  IF IsMixedCase(hex) /\ result # hex THEN Throw("bad address checksum")
           ELSE Ok(<<"0", "x">> \o result)

\* BigNumber.from(`0x${hex}`): throws on a character that is no hex digit
BNfromString(hex) ==
  IF ~IsHexString(hex) \/ hex = <<>> THEN Throw("invalid BigNumber string")
  ELSE Ok(BNfromHex(hex))

Description(kind, of) == [kind |-> kind, of |-> of]
Invalid(loc) == Ok(Description("invalid location", loc))

AccountToString(loc, kind) ==
  IF substring(loc, 4, 26) # ReservedZeros THEN Invalid(loc)
  ELSE LET addr == getAddress(substring(loc, 26, 66))
       IN  IF addr.ok THEN Ok(Description(kind, addr.val)) ELSE addr

locationToString(loc) ==
  IF Len(loc) # LocationChars THEN Invalid(loc)
  ELSE IF substring(loc, 0, 4) = Tag("1") THEN AccountToString(loc, "external balance")
  ELSE IF substring(loc, 0, 4) = Tag("2") THEN AccountToString(loc, "internal balance")
  ELSE IF substring(loc, 0, 4) = Tag("3") THEN
    LET poolID == BNfromString(substring(loc, 4, 66))
    IN  IF poolID.ok THEN Ok(Description("poolID", poolID.val)) ELSE poolID
  ELSE Invalid(loc)

(***************************************************************************)
(* Swap calculators.                                                       *)
(***************************************************************************)
InactivePool == Throw("pool cannot exchange these tokens")

\* mutant: a zero x1 not rejected
AmountAAtRate_X1Unchecked(amountB, x) ==
  IF BNlteZero(x[2]) THEN InactivePool
  ELSE Ok((amountB * BNtoInt(x[1])) \div BNtoInt(x[2]))

\* mutant: rounding up instead of down
AmountAAtRate_Ceil(amountB, x) ==
  IF BNlteZero(x[1]) \/ BNlteZero(x[2]) THEN InactivePool
  ELSE Ok((amountB * BNtoInt(x[1]) + BNtoInt(x[2]) - 1) \div BNtoInt(x[2]))

\* as market maker, the rate decoded: amountA = floor( (amountB * x1) / x2 )
AmountAAtRate(amountB, x) ==
  IF BNlteZero(x[1]) \/ BNlteZero(x[2]) THEN InactivePool
  ELSE Ok((amountB * BNtoInt(x[1])) \div BNtoInt(x[2]))

calculateAmountA(amountB, exchangeRate) ==
  AmountAAtRate(amountB, decodeExchangeRate(exchangeRate))

\* mutant: the remainder ignored, rounding down
AmountBAtRate_Floor(amountA, x) ==
  IF BNlteZero(x[1]) \/ BNlteZero(x[2]) THEN InactivePool
  ELSE Ok((amountA * BNtoInt(x[2])) \div BNtoInt(x[1]))

\* as market maker, the rate decoded: amountB = ceil( (amountA * x2) / x1 )
AmountBAtRate(amountA, x) ==
  IF BNlteZero(x[1]) \/ BNlteZero(x[2]) THEN InactivePool
  ELSE LET x1 == BNtoInt(x[1])
           numerator == amountA * BNtoInt(x[2])
           amountB == numerator \div x1
       IN  Ok(IF numerator % x1 > 0 THEN amountB + 1 ELSE amountB)

calculateAmountB(amountA, exchangeRate) ==
  AmountBAtRate(amountA, decodeExchangeRate(exchangeRate))

\* mutant: the grossing-up rounded up
calculateMarketOrderExactAMT_CeilGrossUp(amountAMT, exchangeRate, feePPM) ==
  LET amountAMM == amountAMT
      b == calculateAmountB(amountAMM, exchangeRate)
  IN  IF ~b.ok THEN b
      ELSE IF MAX_PPM - feePPM = 0 THEN Throw("division by zero")
      ELSE LET amountBMM == b.val
               amountBMT == (amountBMM * MAX_PPM + MAX_PPM - feePPM - 1)
                              \div (MAX_PPM - feePPM)
               amountBFR == (amountBMT * feePPM) \div MAX_PPM
           IN  Ok([amountAMM |-> amountAMM, amountBMM |-> amountBMM,
                   amountBMT |-> amountBMT, amountBFR |-> amountBFR])

\* as market taker
calculateMarketOrderExactAMT(amountAMT, exchangeRate, feePPM) ==
  LET amountAMM == amountAMT
      b == calculateAmountB(amountAMM, exchangeRate)
  IN  IF ~b.ok THEN b
      ELSE IF MAX_PPM - feePPM = 0 THEN Throw("division by zero")
      ELSE LET amountBMM == b.val
               amountBMT == (amountBMM * MAX_PPM) \div (MAX_PPM - feePPM)
               amountBFR == (amountBMT * feePPM) \div MAX_PPM
           IN  Ok([amountAMM |-> amountAMM, amountBMM |-> amountBMM,
                   amountBMT |-> amountBMT, amountBFR |-> amountBFR])

\* mutant: the fee not taken off the amount the maker receives
calculateMarketOrderExactBMT_FeeKept(amountBMT, exchangeRate, feePPM) ==
  LET amountBFR == (amountBMT * feePPM) \div MAX_PPM
      amountBMM == amountBMT
      a == calculateAmountA(amountBMM, exchangeRate)
  IN  IF ~a.ok THEN a
      ELSE Ok([amountAMM |-> a.val, amountAMT |-> a.val,
               amountBMM |-> amountBMM, amountBFR |-> amountBFR])

\* as market taker
calculateMarketOrderExactBMT(amountBMT, exchangeRate, feePPM) ==
  LET amountBFR == (amountBMT * feePPM) \div MAX_PPM
      amountBMM == amountBMT - amountBFR
      a == calculateAmountA(amountBMM, exchangeRate)
  IN  IF ~a.ok THEN a
      ELSE Ok([amountAMM |-> a.val, amountAMT |-> a.val,
               amountBMM |-> amountBMM, amountBFR |-> amountBFR])

(***************************************************************************)
(* Swap fees.  nucleusState.swapFees is a nested table: a function from    *)
(* some tokens to functions from some tokens to fees.  Indexing a missing  *)
(* entry throws inside the try block and leaves feePPM unchanged.          *)
(***************************************************************************)
AddressZero == "0x0000000000000000000000000000000000000000"

HasFee(swapFees, tokenA, tokenB) ==
  /\ tokenA \in DOMAIN swapFees
  /\ tokenB \in DOMAIN swapFees[tokenA]

\* try { feePPM = BN.from(swapFees[tokenA][tokenB].feePPM) } catch(e) {}
TryReadFee(feePPM, swapFees, tokenA, tokenB) ==
  IF HasFee(swapFees, tokenA, tokenB) THEN swapFees[tokenA][tokenB] ELSE feePPM

PairFee(feePPM, swapFees, tokenA, tokenB) ==
  IF feePPM = 0 THEN TryReadFee(feePPM, swapFees, tokenA, tokenB) ELSE feePPM

\* mutant: the default read whether or not the pair has a fee
DefaultFee_Always(feePPM, swapFees) ==
  TryReadFee(feePPM, swapFees, AddressZero, AddressZero)

DefaultFee(feePPM, swapFees) ==
  IF feePPM = 0 THEN TryReadFee(feePPM, swapFees, AddressZero, AddressZero) ELSE feePPM

ClampFee(feePPM) == IF feePPM >= MAX_PPM THEN 0 ELSE feePPM

getSwapFeeForPair(swapFees, tokenA, tokenB) ==
  ClampFee(DefaultFee(PairFee(0, swapFees, tokenA, tokenB), swapFees))

(***************************************************************************)
(* Inputs.                                                                 *)
(***************************************************************************)
\* a leading digit followed by a repeated digit
Patterned(len) ==
  { <<lead>> \o Repeat(fill, len - 1) : lead \in {1, 15}, fill \in {0, 15} }

\* rate components: short ones, and the ones of 31 .. 32+Slack hex digits
RateComponents ==
  { IntToBN(n) : n \in 0..MaxRate } \cup
  UNION { Patterned(len) : len \in (RateBits \div 4 - 1)..(RateBits \div 4 + Slack) }

\* pool ids of up to 62+Slack hex digits
PoolIDs == {<<>>} \cup UNION { Patterned(len) : len \in 1..(PayloadChars + Slack) }

\* rates of the swap calculators: small components, and the two inactive
\* rates with a full-width component
RatePairs ==
  { <<IntToBN(a), IntToBN(b)>> : a \in 0..MaxRate, b \in 0..MaxRate }
  \cup { <<MaxUint128, <<>> >>, << <<>>, MaxUint128>> }

\* each with the 32-byte word encodeExchangeRate makes of it
Rates ==
  { [x1 |-> x[1], x2 |-> x[2], exchangeRate |-> encodeExchangeRate(x[1], x[2]).val] :
      x \in RatePairs }

ExchangeRates == { r.exchangeRate : r \in Rates }

\* 32-byte words decodeExchangeRate is applied to
RateWords ==
  ExchangeRates \cup
  { <<"0", "x">> \o Repeat(c, 31) \o <<d>> \o Repeat(e, 31) \o <<f>> :
      c \in {"0", "f", "F"}, d \in {"0", "1"}, e \in {"0", "8", "a"}, f \in {"0", "7"} }

Amounts == 0..MaxAmount

Fees == {0, 1, 10000, 500000, MAX_PPM}

AddressChars == {"0", "a", "A", "b", "B", "g"}
Addresses ==
  { <<"0", "x", c1, c2>> \o Repeat(fill, n) :
      c1 \in AddressChars, c2 \in AddressChars, fill \in {"0", "f", "F"}, n \in {0, 38} }

\* location strings: a tag, 22 reserved characters, 40 address characters,
\* and the same with the last character dropped or one more appended
TagChars == {"0", "1", "2", "3", "4"}
ReservedFields ==
  { ReservedZeros, <<"1">> \o Repeat("0", 21), Repeat("0", 21) \o <<"1">>,
    Repeat("0", 21) \o <<"g">> }
LocationAddressChars == {"0", "a", "A", "g"}
FullLocations ==
  { Tag(t) \o r \o <<c1, c2>> \o Repeat(fill, 38) :
      t \in TagChars, r \in ReservedFields, c1 \in LocationAddressChars,
      c2 \in LocationAddressChars, fill \in {"0", "f", "F"} }
Locations ==
  FullLocations
  \cup { SubSeq(l, 1, Len(l) - 1) : l \in FullLocations }
  \cup { l \o <<"0">> : l \in FullLocations }

Tokens == {AddressZero, "tokenA", "tokenB"}
FeeValues == {0, 3000, MAX_PPM, MAX_PPM + 1}
InnerTables == UNION { [d -> FeeValues] : d \in SUBSET {AddressZero, "tokenB"} }
SwapFeeTables == UNION { [d -> InnerTables] : d \in SUBSET {AddressZero, "tokenA"} }

(***************************************************************************)
(* Actions: one call of one function per behaviour.                        *)
(***************************************************************************)
Init ==
  /\ op = "none"
  /\ args = <<>>
  /\ ret = Ok(<<>>)

ExternalAddressToLocation ==
  /\ op = "none"
  /\ \E address \in Addresses :
       /\ op' = "externalAddressToLocation"
       /\ args' = [address |-> address]
       /\ ret' = Ok(externalAddressToLocation(address))

InternalAddressToLocation ==
  /\ op = "none"
  /\ \E address \in Addresses :
       /\ op' = "internalAddressToLocation"
       /\ args' = [address |-> address]
       /\ ret' = Ok(internalAddressToLocation(address))

PoolIDtoLocation ==
  /\ op = "none"
  /\ \E poolID \in PoolIDs :
       /\ op' = "poolIDtoLocation"
       /\ args' = [poolID |-> poolID]
       /\ ret' = poolIDtoLocation(poolID)

LocationToString ==
  /\ op = "none"
  /\ \E loc \in Locations :
       /\ op' = "locationToString"
       /\ args' = [loc |-> loc]
       /\ ret' = locationToString(loc)

EncodeExchangeRate ==
  /\ op = "none"
  /\ \E x1 \in RateComponents, x2 \in RateComponents :
       /\ op' = "encodeExchangeRate"
       /\ args' = [x1 |-> x1, x2 |-> x2]
       /\ ret' = encodeExchangeRate(x1, x2)

DecodeExchangeRate ==
  /\ op = "none"
  /\ \E exchangeRate \in RateWords :
       /\ op' = "decodeExchangeRate"
       /\ args' = [exchangeRate |-> exchangeRate]
       /\ ret' = Ok(decodeExchangeRate(exchangeRate))

ExchangeRateIsNonzero ==
  /\ op = "none"
  /\ \E exchangeRate \in RateWords :
       /\ op' = "exchangeRateIsNonzero"
       /\ args' = [exchangeRate |-> exchangeRate]
       /\ ret' = Ok(exchangeRateIsNonzero(exchangeRate))

CalculateAmountA ==
  /\ op = "none"
  /\ \E amountB \in Amounts, r \in Rates :
       /\ op' = "calculateAmountA"
       /\ args' = [amount |-> amountB, x1 |-> r.x1, x2 |-> r.x2, exchangeRate |-> r.exchangeRate]
       /\ ret' = calculateAmountA(amountB, r.exchangeRate)

CalculateAmountB ==
  /\ op = "none"
  /\ \E amountA \in Amounts, r \in Rates :
       /\ op' = "calculateAmountB"
       /\ args' = [amount |-> amountA, x1 |-> r.x1, x2 |-> r.x2, exchangeRate |-> r.exchangeRate]
       /\ ret' = calculateAmountB(amountA, r.exchangeRate)

CalculateMarketOrderExactAMT ==
  /\ op = "none"
  /\ \E amountAMT \in Amounts, r \in Rates, feePPM \in Fees :
       /\ op' = "calculateMarketOrderExactAMT"
       /\ args' = [amount |-> amountAMT, x1 |-> r.x1, x2 |-> r.x2,
                  exchangeRate |-> r.exchangeRate, feePPM |-> feePPM]
       /\ ret' = calculateMarketOrderExactAMT(amountAMT, r.exchangeRate, feePPM)

CalculateMarketOrderExactBMT ==
  /\ op = "none"
  /\ \E amountBMT \in Amounts, r \in Rates, feePPM \in Fees :
       /\ op' = "calculateMarketOrderExactBMT"
       /\ args' = [amount |-> amountBMT, x1 |-> r.x1, x2 |-> r.x2,
                  exchangeRate |-> r.exchangeRate, feePPM |-> feePPM]
       /\ ret' = calculateMarketOrderExactBMT(amountBMT, r.exchangeRate, feePPM)

GetSwapFeeForPair ==
  /\ op = "none"
  /\ \E swapFees \in SwapFeeTables, tokenA \in Tokens, tokenB \in Tokens :
       /\ op' = "getSwapFeeForPair"
       /\ args' = [swapFees |-> swapFees, tokenA |-> tokenA, tokenB |-> tokenB]
       /\ ret' = Ok(getSwapFeeForPair(swapFees, tokenA, tokenB))

Next ==
  \/ ExternalAddressToLocation
  \/ InternalAddressToLocation
  \/ PoolIDtoLocation
  \/ LocationToString
  \/ EncodeExchangeRate
  \/ DecodeExchangeRate
  \/ ExchangeRateIsNonzero
  \/ CalculateAmountA
  \/ CalculateAmountB
  \/ CalculateMarketOrderExactAMT
  \/ CalculateMarketOrderExactBMT
  \/ GetSwapFeeForPair

Spec == Init /\ [][Next]_vars

\* the location functions alone
NextLocation ==
  \/ ExternalAddressToLocation
  \/ InternalAddressToLocation
  \/ PoolIDtoLocation
  \/ LocationToString

SpecLocation == Init /\ [][NextLocation]_vars

\* the exchange rate functions alone
NextRate ==
  \/ EncodeExchangeRate
  \/ DecodeExchangeRate
  \/ ExchangeRateIsNonzero

SpecRate == Init /\ [][NextRate]_vars

\* the swap calculators alone
NextSwap ==
  \/ CalculateAmountA
  \/ CalculateAmountB
  \/ CalculateMarketOrderExactAMT
  \/ CalculateMarketOrderExactBMT

SpecSwap == Init /\ [][NextSwap]_vars

\* the swap fee lookup alone
NextFee == GetSwapFeeForPair

SpecFee == Init /\ [][NextFee]_vars

(***************************************************************************)
(* Properties.                                                             *)
(***************************************************************************)
Active == args.x1 # <<>> /\ args.x2 # <<>>
X1 == BNtoInt(args.x1)
X2 == BNtoInt(args.x2)

\* q = floor(n / d) for n >= 0, d > 0
IsFloorOf(q, n, d) == q * d <= n /\ n < (q + 1) * d
\* q = ceil(n / d) for n >= 0, d > 0
IsCeilOf(q, n, d) == (q - 1) * d < n /\ n <= q * d

IsExactAMT == op = "calculateMarketOrderExactAMT"
IsExactBMT == op = "calculateMarketOrderExactBMT"

\* C1 as stated: for an active rate and feePPM < 1_000_000 the exact-A market
\* order returns amountA_mm = amountA, amountB_mm = ceil(amountA * x2 / x1),
\* amountB_taker_pays = ceil(amountB_mm * 1_000_000 / (1_000_000 - feePPM))
\* and amountB_fee = floor(amountB_taker_pays * feePPM / 1_000_000).
C1_AsStated ==
  (IsExactAMT /\ Active /\ args.feePPM < MAX_PPM) =>
    /\ ret.ok
    /\ ret.val.amountAMM = args.amount
    /\ IsCeilOf(ret.val.amountBMM, args.amount * X2, X1)
    /\ IsCeilOf(ret.val.amountBMT, ret.val.amountBMM * MAX_PPM, MAX_PPM - args.feePPM)
    /\ IsFloorOf(ret.val.amountBFR, ret.val.amountBMT * args.feePPM, MAX_PPM)

\* C1 amended: as stated, except that amountB_taker_pays is
\* floor(amountB_mm * 1_000_000 / (1_000_000 - feePPM)); for rate (1,1),
\* feePPM = 10_000 and amountA = 100 the order returns amountB_mm = 100,
\* amountB_taker_pays = 101 and amountB_fee = 1.
C1_ExactAFloorGrossUp ==
  (IsExactAMT /\ Active /\ args.feePPM < MAX_PPM) =>
    /\ ret.ok
    /\ ret.val.amountAMM = args.amount
    /\ IsCeilOf(ret.val.amountBMM, args.amount * X2, X1)
    /\ IsFloorOf(ret.val.amountBMT, ret.val.amountBMM * MAX_PPM, MAX_PPM - args.feePPM)
    /\ IsFloorOf(ret.val.amountBFR, ret.val.amountBMT * args.feePPM, MAX_PPM)
    /\ (args.amount = 100 /\ X1 = 1 /\ X2 = 1 /\ args.feePPM = 10000) =>
         /\ ret.val.amountBMM = 100
         /\ ret.val.amountBMT = 101
         /\ ret.val.amountBFR = 1

C1_Witness ==
  /\ IsExactAMT /\ Active
  /\ args.amount = 100 /\ X1 = 1 /\ X2 = 1 /\ args.feePPM = 10000
  /\ ret.ok /\ ret.val.amountBMT = 101

\* the entry of a nested fee table, as a set of at most one fee
FeeEntry(t, a, b) == IF a \in DOMAIN t /\ b \in DOMAIN t[a] THEN {t[a][b]} ELSE {}
PairEntry == FeeEntry(args.swapFees, args.tokenA, args.tokenB)
DefaultEntry == FeeEntry(args.swapFees, AddressZero, AddressZero)
TheFee(e) == CHOOSE f \in e : TRUE
Clamped(f) == IF f >= MAX_PPM THEN 0 ELSE f
IsGetSwapFee == op = "getSwapFeeForPair"

\* C2 as stated: the fee lookup returns the pair-specific entry whenever it
\* is present, whatever its value (0 included) and whatever the default is;
\* the default when the pair entry is absent; 0 when neither is present;
\* and 0 when the resolved value is >= 1_000_000.
C2_AsStated ==
  IsGetSwapFee =>
    ret.val = IF PairEntry # {} THEN Clamped(TheFee(PairEntry))
              ELSE IF DefaultEntry # {} THEN Clamped(TheFee(DefaultEntry))
              ELSE 0

\* C2 amended: the fee lookup returns the pair-specific entry whenever it is
\* present and not 0, whatever the default is; the default when the pair
\* entry is absent or 0; 0 when the default is needed and absent; and 0
\* when the resolved value is >= 1_000_000.
C2_ZeroPairFallsBack ==
  IsGetSwapFee =>
    ret.val = IF PairEntry # {} /\ TheFee(PairEntry) # 0 THEN Clamped(TheFee(PairEntry))
              ELSE IF DefaultEntry # {} THEN Clamped(TheFee(DefaultEntry))
              ELSE 0

C2_Witness ==
  /\ IsGetSwapFee
  /\ PairEntry = {0}
  /\ DefaultEntry = {3000}
  /\ ret.val = 3000

\* C3: poolIDtoLocation fails for every poolId greater than 2^248 - 1, and
\* for every other poolId returns exactly 32 bytes: the tag 0x03 followed by
\* poolId as a 31-byte big-endian integer.
C3_PoolIDRangeChecked ==
  op = "poolIDtoLocation" =>
    IF Len(args.poolID) > PayloadChars THEN ~ret.ok
    ELSE /\ ret.ok
         /\ Len(ret.val) = LocationChars
         /\ ret.val = Tag("3") \o DigitsToChars(DigitsPad(args.poolID, PayloadChars))

IsInvalidLocation(loc) ==
  \/ Len(loc) # LocationChars
  \/ SubSeq(loc, 1, 4) \notin {Tag("1"), Tag("2"), Tag("3")}
  \/ /\ SubSeq(loc, 1, 4) \in {Tag("1"), Tag("2")}
     /\ \E i \in 5..26 : loc[i] # "0"

KindOfTag(t) ==
  IF t = "1" THEN "external balance" ELSE IF t = "2" THEN "internal balance" ELSE "poolID"

\* C4: locationToString never raises: it returns the invalid-location
\* indication when the input is not 32 bytes, the tag is none of 0x01, 0x02,
\* 0x03, or the tag is 0x01/0x02 and a reserved byte is not zero, and one of
\* the three valid descriptions, matching the tag, for every other input.
C4_DescribeNeverRaises ==
  op = "locationToString" =>
    /\ ret.ok
    /\ IF IsInvalidLocation(args.loc) THEN ret.val.kind = "invalid location"
       ELSE ret.val.kind = KindOfTag(args.loc[4])

FitsRate(x) == Len(x) <= RateBits \div 4
IsEncode == op = "encodeExchangeRate"

\* C5: for all x1, x2 <= 2^128 - 1, decoding the encoding of (x1, x2) gives
\* back (x1, x2), and the encoding is the 32-byte big-endian word
\* (x1 << 128) | x2: the 16 bytes of x1 followed by the 16 bytes of x2.
C5_RateRoundTrip ==
  (IsEncode /\ FitsRate(args.x1) /\ FitsRate(args.x2)) =>
    /\ ret.ok
    /\ decodeExchangeRate(ret.val) = <<args.x1, args.x2>>
    /\ ret.val = <<"0", "x">> \o DigitsToChars(DigitsPad(args.x1, RateBits \div 4))
                             \o DigitsToChars(DigitsPad(args.x2, RateBits \div 4))

C5_Witness ==
  /\ IsEncode
  /\ args.x1 = MaxUint128
  /\ args.x2 = <<1>> \o Repeat(0, RateBits \div 4 - 1)
  /\ ret.ok

\* C6: encodeExchangeRate fails exactly when x1 > 2^128 - 1 or
\* x2 > 2^128 - 1.
C6_EncodeRangeError ==
  IsEncode => (~ret.ok <=> (~FitsRate(args.x1) \/ ~FitsRate(args.x2)))

\* encode(0, 2^128) fails
C6_Witness ==
  /\ IsEncode
  /\ args.x1 = <<>>
  /\ args.x2 = <<1>> \o Repeat(0, RateBits \div 4)
  /\ ~ret.ok

IsAmountA == op = "calculateAmountA"
IsAmountB == op = "calculateAmountB"

\* C7: for an active rate calculateAmountB returns ceil(amountA * x2 / x1),
\* the smallest amountB with amountB * x1 >= amountA * x2: the floor when
\* the division is exact and one more otherwise (rate (3,1): 10 gives 4,
\* 9 gives 3).
C7_AmountBIsCeiling ==
  (IsAmountB /\ Active) =>
    /\ ret.ok
    /\ ret.val * X1 >= args.amount * X2
    /\ \A b \in 0..(ret.val - 1) : b * X1 < args.amount * X2
    /\ ret.val = ((args.amount * X2) \div X1)
                   + (IF (args.amount * X2) % X1 = 0 THEN 0 ELSE 1)
    /\ (X1 = 3 /\ X2 = 1 /\ args.amount = 10) => ret.val = 4
    /\ (X1 = 3 /\ X2 = 1 /\ args.amount = 9) => ret.val = 3

C7_Witness ==
  /\ IsAmountB
  /\ args.x1 = <<3>> /\ args.x2 = <<1>> /\ args.amount = 10
  /\ ret.ok /\ ret.val = 4

\* C8: with a rate that decodes to (0, x2) or (x1, 0) the two maker
\* calculators fail with the inactive-pool error, and so do the two market
\* order calculators for every feePPM < 1_000_000: none returns an amount.
C8_InactiveRateFails ==
  ( /\ op \in {"calculateAmountA", "calculateAmountB",
               "calculateMarketOrderExactAMT", "calculateMarketOrderExactBMT"}
    /\ ~Active
    /\ (IsExactAMT \/ IsExactBMT) => args.feePPM < MAX_PPM )
  => ret = Throw("pool cannot exchange these tokens")

C8_Witness ==
  /\ IsExactBMT
  /\ args.x1 = MaxUint128 /\ args.x2 = <<>>
  /\ args.amount > 0 /\ args.feePPM = 10000
  /\ ~ret.ok

\* C9: for an active rate and feePPM in [0, 1_000_000) the exact-B market
\* order returns amountB_fee = floor(amountB_taker_pays * feePPM / 1_000_000),
\* amountB_mm = amountB_taker_pays - amountB_fee (between 0 and
\* amountB_taker_pays), amountA_mm = floor(amountB_mm * x1 / x2) and
\* amountA_taker_receives = amountA_mm.
C9_ExactBNetsFee ==
  (IsExactBMT /\ Active /\ args.feePPM < MAX_PPM) =>
    /\ ret.ok
    /\ IsFloorOf(ret.val.amountBFR, args.amount * args.feePPM, MAX_PPM)
    /\ ret.val.amountBMM = args.amount - ret.val.amountBFR
    /\ ret.val.amountBMM + ret.val.amountBFR = args.amount
    /\ 0 <= ret.val.amountBMM /\ ret.val.amountBMM <= args.amount
    /\ IsFloorOf(ret.val.amountAMM, ret.val.amountBMM * X1, X2)
    /\ ret.val.amountAMT = ret.val.amountAMM

C9_Witness ==
  /\ IsExactBMT /\ Active
  /\ args.amount = 100 /\ X1 = 3 /\ X2 = 2 /\ args.feePPM = 10000
  /\ ret.ok
  /\ ret.val.amountBFR = 1 /\ ret.val.amountBMM = 99 /\ ret.val.amountAMM = 148

\* C10: for an active rate and all amounts a, b: calculateAmountA(b) >= a
\* iff b >= calculateAmountB(a); hence calculateAmountB(calculateAmountA(b))
\* <= b and calculateAmountA(calculateAmountB(a)) >= a.
C10_MakerRoundingAdjoint ==
  /\ (IsAmountA /\ Active) =>
       LET x == decodeExchangeRate(args.exchangeRate)
       IN  /\ ret.ok
           /\ \A a \in Amounts :
                (ret.val >= a) <=> (args.amount >= AmountBAtRate(a, x).val)
           /\ AmountBAtRate(ret.val, x).val <= args.amount
  /\ (IsAmountB /\ Active) =>
       LET x == decodeExchangeRate(args.exchangeRate)
       IN  /\ ret.ok
           /\ \A b \in Amounts :
                (AmountAAtRate(b, x).val >= args.amount) <=> (b >= ret.val)
           /\ AmountAAtRate(ret.val, x).val >= args.amount

\* a round trip that does not give the amount back
C10_Witness ==
  /\ IsAmountA /\ Active
  /\ X1 = 2 /\ X2 = 3 /\ args.amount = 10
  /\ ret.ok /\ ret.val = 6
  /\ AmountBAtRate(ret.val, decodeExchangeRate(args.exchangeRate)).val = 9

====
